---- MODULE Spec2Model ----
(***************************************************************************)
(* The generic relational data-access layer of storage_models             *)
(* (query/generics.rs) and the payment-attempt facade built on it         *)
(* (query/payment_attempt.rs).                                            *)
(*                                                                         *)
(* The relational engine is the collaborator behind every                  *)
(* get_result_async / get_results_async / execute_async / first_async      *)
(* call.  It is modelled as a table (a set of rows with a primary key and  *)
(* a unique column) and, per statement, an engine outcome `eng`: whether   *)
(* the statement fails for a reason of its own (connection, server) and    *)
(* the order in which the engine scans the rows.                           *)
(***************************************************************************)
EXTENDS Integers, Sequences, FiniteSets

VARIABLES
    table,   \* the rows stored in the relation
    last,    \* the pending response: [op, arg, eng, res], or Idle
    cleared  \* history: per tracked predicate, what happened since a delete
             \* of it last answered true ("no": no such delete, or a matching
             \* row was inserted since; "clean"; "touched": an update has
             \* since made a row match it)

vars == <<table, last, cleared>>

-----------------------------------------------------------------------------
(* Bounds *)

MaxKey == 2
MaxTime == 2
\* How many rows more than the default limit the largest table holds.
OverLimit == 2

-----------------------------------------------------------------------------
(* Data model *)

None == "none"
Any == "*"
AnyKey == 0

Keys == 1..MaxKey
UCols == 1..MaxKey
Times == 1..MaxTime
PaymentIds == {"p1", "p2"}
MerchantIds == {"m1", "m2"}
StoredMerchantIds == {"m1"}
Statuses == {"started", "charged"}

Rows ==
    [key : Keys, ucol : UCols, payment_id : PaymentIds,
     merchant_id : StoredMerchantIds, status : Statuses, created_at : Times]

\* A changeset: the columns an UPDATE assigns; None leaves the column alone.
Changesets == [status : Statuses \cup {None}]

\* Option<T>: a sequence of at most one element.
Some(v) == <<v>>
Nothing == <<>>

Ok(v) == [ok |-> TRUE, val |-> v]
Err(e) == [ok |-> FALSE, err |-> e]

\* Predicates are conjunctions of column equalities.
Pred(k, p, m, s) == [key |-> k, payment_id |-> p, merchant_id |-> m, status |-> s]

Matches(r, P) ==
    /\ P.key = AnyKey \/ r.key = P.key
    /\ P.payment_id = Any \/ r.payment_id = P.payment_id
    /\ P.merchant_id = Any \/ r.merchant_id = P.merchant_id
    /\ P.status = Any \/ r.status = P.status

ByKey(k) == Pred(k, Any, Any, Any)
ByPayment(p, m) == Pred(AnyKey, p, m, Any)
ByPaymentStatus(p, m, s) == Pred(AnyKey, p, m, s)

Preds ==
    {ByKey(k) : k \in Keys}
        \cup {ByPayment(p, "m1") : p \in PaymentIds}
        \cup {ByPayment("p1", "m2"), ByPaymentStatus("p1", "m1", "charged")}

-----------------------------------------------------------------------------
(* The engine *)

\* The rows of S in primary-key order.
SeqByKey(S) ==
    LET keys == {r.key : r \in S}
        hi == IF keys = {} THEN 0 ELSE CHOOSE k \in keys : \A j \in keys : j <= k
        ks == SelectSeq([k \in 1..hi |-> k], LAMBDA k : k \in keys)
    IN [i \in 1..Len(ks) |-> CHOOSE r \in S : r.key = ks[i]]

Reverse(s) == [i \in 1..Len(s) |-> s[Len(s) + 1 - i]]

Rotate(s, k) ==
    IF Len(s) = 0 THEN s
    ELSE [i \in 1..Len(s) |-> s[((i - 1 + k) % Len(s)) + 1]]

\* The order in which the engine visits the rows of S: unspecified by SQL,
\* here one of the rotations of the key order or of its reverse.
ScanOrders == 0..5

Scan(S, scan) ==
    LET base == Rotate(SeqByKey(S), scan % 3)
    IN IF scan >= 3 THEN Reverse(base) ELSE base

EngineOutcomes(scans) ==
    {[fail |-> TRUE, scan |-> 0]} \cup {[fail |-> FALSE, scan |-> s] : s \in scans}

Take(s, n) == IF n >= Len(s) THEN s ELSE SubSeq(s, 1, n)

\* INSERT ... RETURNING *: the primary key and the unique column are unique.
PgInsert(t, v, eng) ==
    IF eng.fail THEN [out |-> Err("Other"), table |-> t]
    ELSE IF \E r \in t : r.key = v.key \/ r.ucol = v.ucol
    THEN [out |-> Err("UniqueViolation"), table |-> t]
    ELSE [out |-> Ok(v), table |-> t \cup {v}]

IsNoop(cs) == cs.status = None

Apply(cs, r) == IF cs.status = None THEN r ELSE [r EXCEPT !.status = cs.status]

\* UPDATE ... WHERE P SET cs [RETURNING *].  A changeset that assigns nothing
\* cannot be rendered: the statement fails with a query-builder error before
\* it is sent.
PgUpdate(t, P, cs, eng) ==
    IF IsNoop(cs) THEN [out |-> Err("QueryBuilderError"), table |-> t]
    ELSE IF eng.fail THEN [out |-> Err("Other"), table |-> t]
    ELSE LET hit == {r \in t : Matches(r, P)}
             seq == Scan(hit, eng.scan)
         IN [out |-> Ok([i \in 1..Len(seq) |-> Apply(cs, seq[i])]),
             table |-> (t \ hit) \cup {Apply(cs, r) : r \in hit}]

\* DELETE ... WHERE P: the number of rows deleted.
PgDelete(t, P, eng) ==
    IF eng.fail THEN [out |-> Err("Other"), table |-> t]
    ELSE LET hit == {r \in t : Matches(r, P)}
         IN [out |-> Ok(Cardinality(hit)), table |-> t \ hit]

\* SELECT ... WHERE P [LIMIT n], rows in scan order; limit is Nothing or
\* Some(n).  The engine rejects a negative LIMIT.
PgSelect(t, P, limit, eng) ==
    IF eng.fail \/ (limit # Nothing /\ limit[1] < 0) THEN Err("Other")
    ELSE LET seq == Scan({r \in t : Matches(r, P)}, eng.scan)
         IN Ok(IF limit = Nothing THEN seq ELSE Take(seq, limit[1]))

\* An ordering expression: a column, ascending or descending.
OrderExprs == [col : {"created_at"}, desc : BOOLEAN]

OrderKey(r, expr) == IF expr.desc THEN 0 - r[expr.col] ELSE r[expr.col]

\* The integers of S in increasing order.
RECURSIVE Ascending(_)
Ascending(S) ==
    IF S = {} THEN <<>>
    ELSE LET m == CHOOSE x \in S : \A y \in S : x <= y
         IN <<m>> \o Ascending(S \ {m})

RECURSIVE Concat(_, _)
Concat(ss, i) == IF i > Len(ss) THEN <<>> ELSE ss[i] \o Concat(ss, i + 1)

\* ORDER BY expr over the scanned rows: rows that compare equal stay in the
\* order the scan met them.
OrderBy(seq, expr) ==
    LET ks == Ascending({OrderKey(seq[i], expr) : i \in 1..Len(seq)})
    IN Concat([j \in 1..Len(ks) |->
                   SelectSeq(seq, LAMBDA r : OrderKey(r, expr) = ks[j])], 1)

\* SELECT ... WHERE P ORDER BY expr LIMIT n.
PgSelectOrder(t, P, expr, limit, eng) ==
    IF eng.fail \/ (limit # Nothing /\ limit[1] < 0) THEN Err("Other")
    ELSE LET seq == OrderBy(Scan({r \in t : Matches(r, P)}, eng.scan), expr)
         IN Ok(IF limit = Nothing THEN seq ELSE Take(seq, limit[1]))

\* RunQueryDsl::execute: the number of affected rows.
Execute(out) == IF out.ok THEN Ok(Len(out.val)) ELSE out

\* RunQueryDsl::get_result / first: the first row, NotFound when there is none.
GetResult(out) ==
    IF ~out.ok THEN out
    ELSE IF Len(out.val) = 0 THEN Err("NotFound")
    ELSE Ok(out.val[1])

-----------------------------------------------------------------------------
(* generics.rs *)

\* generic_insert without the UniqueViolation arm.
generic_insert_all_others(t, values, eng) ==
    LET r == PgInsert(t, values, eng)
    IN [res |-> IF r.out.ok THEN r.out ELSE Err("Others"), table |-> r.table]

generic_insert(t, values, eng) ==
    LET r == PgInsert(t, values, eng)
    IN [res |-> IF r.out.ok THEN r.out
                ELSE IF r.out.err = "UniqueViolation" THEN Err("UniqueViolation")
                ELSE Err("Others"),
        table |-> r.table]

\* generic_update reporting "matched nothing" as an error, as delete does.
generic_update_zero_is_error(t, predicate, values, eng) ==
    LET r == PgUpdate(t, predicate, values, eng)
        n == Execute(r.out)
    IN [res |-> IF ~n.ok THEN Err("Others")
                ELSE IF n.val = 0 THEN Err("NotFound")
                ELSE n,
        table |-> r.table]

generic_update(t, predicate, values, eng) ==
    LET r == PgUpdate(t, predicate, values, eng)
        n == Execute(r.out)
    IN [res |-> IF n.ok THEN n ELSE Err("Others"), table |-> r.table]

generic_update_with_results(t, predicate, values, eng) ==
    LET r == PgUpdate(t, predicate, values, eng)
    IN [res |-> IF r.out.ok THEN r.out ELSE Err("Others"), table |-> r.table]

generic_find_by_id_core(t, id, eng) ==
    LET r == GetResult(PgSelect(t, ByKey(id), Some(1), eng))
    IN IF r.ok THEN r
       ELSE IF r.err = "NotFound" THEN Err("NotFound")
       ELSE Err("Others")

generic_find_by_id(t, id, eng) == generic_find_by_id_core(t, id, eng)

\* generic_update_by_id without the fallback lookup for an empty changeset.
generic_update_by_id_no_fallback(t, id, values, eng, eng2) ==
    LET r == PgUpdate(t, ByKey(id), values, eng)
        one == GetResult(r.out)
    IN [res |-> IF one.ok THEN one
                ELSE IF one.err = "NotFound" THEN Err("NotFound")
                ELSE Err("Others"),
        table |-> r.table]

generic_update_by_id(t, id, values, eng, eng2) ==
    LET r == PgUpdate(t, ByKey(id), values, eng)
        one == GetResult(r.out)
    IN [res |-> IF one.ok THEN one
                ELSE IF one.err = "QueryBuilderError"
                THEN generic_find_by_id_core(r.table, id, eng2)
                ELSE IF one.err = "NotFound" THEN Err("NotFound")
                ELSE Err("Others"),
        table |-> r.table]

\* generic_delete whose statement removes one matching row only.
generic_delete_first_only(t, predicate, eng) ==
    LET hit == {r \in t : Matches(r, predicate)}
    IN IF eng.fail THEN [res |-> Err("Others"), table |-> t]
       ELSE IF hit = {} THEN [res |-> Err("NotFound"), table |-> t]
       ELSE [res |-> Ok(TRUE), table |-> t \ {CHOOSE r \in hit : TRUE}]

\* generic_delete with the zero-rows arm answering true.
generic_delete_zero_is_true(t, predicate, eng) ==
    LET r == PgDelete(t, predicate, eng)
    IN [res |-> IF ~r.out.ok THEN Err("Others") ELSE Ok(TRUE), table |-> r.table]

generic_delete(t, predicate, eng) ==
    LET r == PgDelete(t, predicate, eng)
    IN [res |-> IF ~r.out.ok THEN Err("Others")
                ELSE IF r.out.val > 0 THEN Ok(TRUE)
                ELSE Err("NotFound"),
        table |-> r.table]

\* to_optional absorbing every error.
to_optional_absorb_all(arg) == IF arg.ok THEN Ok(Some(arg.val)) ELSE Ok(Nothing)

to_optional(arg) ==
    IF arg.ok THEN Ok(Some(arg.val))
    ELSE IF arg.err = "NotFound" THEN Ok(Nothing)
    ELSE arg

generic_find_by_id_optional(t, id, eng) ==
    to_optional(generic_find_by_id_core(t, id, eng))

generic_find_one_core(t, predicate, eng) ==
    LET r == GetResult(PgSelect(t, predicate, Nothing, eng))
    IN IF r.ok THEN r
       ELSE IF r.err = "NotFound" THEN Err("NotFound")
       ELSE Err("Others")

generic_find_one(t, predicate, eng) == generic_find_one_core(t, predicate, eng)

generic_find_one_optional(t, predicate, eng) ==
    to_optional(generic_find_one_core(t, predicate, eng))

\* generic_filter classifying failures as the single-row lookups do.
generic_filter_others(t, predicate, limit, eng) ==
    LET r == PgSelect(t, predicate, limit, eng)
    IN IF r.ok THEN r ELSE Err("Others")

generic_filter(t, predicate, limit, eng) ==
    LET r == PgSelect(t, predicate, limit, eng)
    IN IF r.ok THEN r ELSE Err("NotFound")

DefaultLimit == 100

\* generic_filter_order without the default cap.
generic_filter_order_uncapped(t, predicate, limit, expr, eng) ==
    LET r == PgSelectOrder(t, predicate, expr, limit, eng)
    IN IF r.ok THEN r ELSE Err("NotFound")

generic_filter_order(t, predicate, limit, expr, eng) ==
    LET r == PgSelectOrder(
                 t, predicate, expr,
                 IF limit = Nothing THEN Some(DefaultLimit) ELSE limit, eng)
    IN IF r.ok THEN r ELSE Err("NotFound")

-----------------------------------------------------------------------------
(* payment_attempt.rs *)

PaymentAttemptNew_insert(t, self, eng) == generic_insert(t, self, eng)

\* PaymentAttempt.update scoped to self's own row.
PaymentAttempt_update_own_row(t, self, payment_attempt, eng) ==
    LET r == generic_update_with_results(t, ByKey(self.key), payment_attempt, eng)
    IN [res |-> IF ~r.res.ok
                THEN (IF r.res.err = "NoFieldsToUpdate" THEN Ok(self) ELSE r.res)
                ELSE IF Len(r.res.val) = 0 THEN Err("NotFound")
                ELSE Ok(r.res.val[Len(r.res.val)]),
        table |-> r.table]

PaymentAttempt_update(t, self, payment_attempt, eng) ==
    LET r == generic_update_with_results(
                 t, ByPayment(self.payment_id, self.merchant_id), payment_attempt, eng)
    IN [res |-> IF ~r.res.ok
                THEN (IF r.res.err = "NoFieldsToUpdate" THEN Ok(self) ELSE r.res)
                ELSE IF Len(r.res.val) = 0 THEN Err("NotFound")
                ELSE Ok(r.res.val[Len(r.res.val)]),
        table |-> r.table]

\* The fold of find_last_successful_attempt with the comparison reversed.
RECURSIVE FoldOldest(_, _, _)
FoldOldest(acc, s, i) ==
    IF i > Len(s) THEN acc
    ELSE FoldOldest(
             IF acc.ok /\ acc.val.created_at < s[i].created_at THEN acc ELSE Ok(s[i]),
             s, i + 1)

\* The fold of find_last_successful_attempt: acc over s[i..].
RECURSIVE FoldLatest(_, _, _)
FoldLatest(acc, s, i) ==
    IF i > Len(s) THEN acc
    ELSE FoldLatest(
             IF acc.ok /\ acc.val.created_at > s[i].created_at THEN acc ELSE Ok(s[i]),
             s, i + 1)

find_last_successful_attempt_by_payment_id_merchant_id(t, payment_id, merchant_id, eng) ==
    LET r == generic_filter(
                 t, ByPaymentStatus(payment_id, merchant_id, "charged"), Nothing, eng)
    IN IF ~r.ok THEN r ELSE FoldLatest(Err("NotFound"), r.val, 1)

NewestFirst == [col |-> "created_at", desc |-> TRUE]

\* find_latest with the first call's failure returned to the caller.
find_latest_first_propagates(t, payment_id, merchant_id, eng1, eng) ==
    LET y == generic_filter_order(
                 t, ByPayment(payment_id, merchant_id), Some(1), NewestFirst, eng1)
        r == PgSelectOrder(t, ByPayment(payment_id, merchant_id), NewestFirst, Some(1), eng)
    IN IF ~y.ok THEN y ELSE IF r.ok THEN r ELSE Err("NotFound")

\* eng1 is the engine outcome of the filter_order call whose result y is
\* dropped, eng that of the query issued directly.
find_latest_by_payment_id_merchant_id(t, payment_id, merchant_id, eng1, eng) ==
    LET y == generic_filter_order(
                 t, ByPayment(payment_id, merchant_id), Some(1), NewestFirst, eng1)
        r == PgSelectOrder(t, ByPayment(payment_id, merchant_id), NewestFirst, Some(1), eng)
    IN IF r.ok THEN r ELSE Err("NotFound")

-----------------------------------------------------------------------------
(* The callers: one action per operation.  A caller issues one call when no *)
(* response is pending (Idle) and takes the response before the next call.  *)

Idle == [op |-> "idle"]

\* The history of predicate P after a call that took the table from t to t2.
Track(P, was, op, arg, res, t, t2) ==
    IF op = "delete" /\ arg.pred = P /\ res = Ok(TRUE) THEN "clean"
    ELSE IF was = "no" THEN "no"
    ELSE IF op = "insert" /\ res.ok /\ Matches(arg, P) THEN "no"
    ELSE IF \E r \in t2 \ t : Matches(r, P) THEN "touched"
    ELSE was

Call(op, arg, eng, r) ==
    /\ last = Idle
    /\ table' = r.table
    /\ last' = [op |-> op, arg |-> arg, eng |-> eng, res |-> r.res]
    /\ cleared' = [P \in DOMAIN cleared |->
                       Track(P, cleared[P], op, arg, r.res, table, r.table)]

\* The rows the callers insert: all created at the same instant.
NewRows == {r \in Rows : r.created_at = 1}

\* Engine outcomes for statements whose result does not depend on the scan
\* order, and for those whose result does.
Unordered == EngineOutcomes({0})
MainEngine == EngineOutcomes({0, 3})

\* The predicates whose history is tracked: one over the key alone, one over
\* a column that updates assign.
TrackedPreds == {ByKey(1), ByPaymentStatus("p1", "m1", "charged")}

Init ==
    /\ table = {}
    /\ last = Idle
    /\ cleared = [P \in {} |-> "no"]

InitHistory ==
    /\ table = {}
    /\ last = Idle
    /\ cleared = [P \in TrackedPreds |-> "no"]

Insert ==
    \E v \in NewRows, eng \in Unordered :
        Call("insert", v, eng, PaymentAttemptNew_insert(table, v, eng))

Update ==
    \E P \in Preds, cs \in Changesets, eng \in Unordered :
        Call("update", [pred |-> P, cs |-> cs], eng, generic_update(table, P, cs, eng))

UpdateByKey ==
    \E id \in Keys, cs \in Changesets, eng \in Unordered, eng2 \in Unordered :
        Call("update_by_key", [id |-> id, cs |-> cs, eng2 |-> eng2], eng,
             generic_update_by_id(table, id, cs, eng, eng2))

Delete ==
    \E P \in Preds, eng \in Unordered :
        Call("delete", [pred |-> P], eng, generic_delete(table, P, eng))

FindByKey ==
    \E id \in Keys, eng \in Unordered :
        Call("find_by_key", [id |-> id], eng,
             [res |-> generic_find_by_id(table, id, eng), table |-> table])

AttemptUpdate ==
    \E self \in NewRows, cs \in Changesets, eng \in MainEngine :
        Call("attempt_update", [self |-> self, cs |-> cs], eng,
             PaymentAttempt_update(table, self, cs, eng))

Return ==
    /\ last # Idle
    /\ last' = Idle
    /\ UNCHANGED <<table, cleared>>

Next ==
    \/ Insert
    \/ Update
    \/ UpdateByKey
    \/ Delete
    \/ FindByKey
    \/ AttemptUpdate
    \/ Return

Spec == Init /\ [][Next]_vars

\* The read-only operations, each applied to a table drawn from the tables
\* the inserts can build.
QueryTables ==
    UNION {
        {{[key |-> k, ucol |-> k, payment_id |-> f[k].payment_id,
           merchant_id |-> "m1", status |-> f[k].status,
           created_at |-> f[k].created_at] : k \in 1..n}
            : f \in [1..n -> [payment_id : PaymentIds, status : Statuses,
                              created_at : Times]]}
        : n \in 0..MaxKey}

AnyScan == EngineOutcomes(ScanOrders)

Limits == {Nothing, Some(-1), Some(0), Some(1)}

InitQuery ==
    /\ table \in QueryTables
    /\ last = Idle
    /\ cleared = [P \in {} |-> "no"]

Read(op, arg, eng, res) == Call(op, arg, eng, [res |-> res, table |-> table])

FindOne ==
    \E P \in Preds, eng \in AnyScan :
        Read("find_one", [pred |-> P], eng, generic_find_one(table, P, eng))

FindOneOptional ==
    \E P \in Preds, eng \in AnyScan :
        Read("find_one_optional", [pred |-> P], eng,
             generic_find_one_optional(table, P, eng))

FindByKeyOptional ==
    \E id \in Keys, eng \in Unordered :
        Read("find_by_key_optional", [id |-> id], eng,
             generic_find_by_id_optional(table, id, eng))

Filter ==
    \E P \in Preds, limit \in Limits, eng \in AnyScan :
        Read("filter", [pred |-> P, limit |-> limit], eng,
             generic_filter(table, P, limit, eng))

FindLastSuccessful ==
    \E p \in PaymentIds, m \in MerchantIds, eng \in AnyScan :
        Read("find_last_successful", [payment_id |-> p, merchant_id |-> m], eng,
             find_last_successful_attempt_by_payment_id_merchant_id(table, p, m, eng))

FindLatest ==
    \E p \in PaymentIds, m \in MerchantIds, eng1 \in MainEngine, eng \in AnyScan :
        Read("find_latest", [payment_id |-> p, merchant_id |-> m, eng1 |-> eng1], eng,
             find_latest_by_payment_id_merchant_id(table, p, m, eng1, eng))

NextQuery ==
    \/ FindOne
    \/ FindOneOptional
    \/ FindByKey
    \/ FindByKeyOptional
    \/ Filter
    \/ FindLastSuccessful
    \/ FindLatest
    \/ Return

SpecQuery == InitQuery /\ [][NextQuery]_vars

\* filter_order, applied to tables with few rows and to tables with about
\* DefaultLimit rows of payment p1 (and two of payment p2), creation times
\* repeating with the given stride.
LimitTable(n, stride) ==
    {[key |-> i, ucol |-> i,
      payment_id |-> IF i <= n THEN "p1" ELSE "p2",
      merchant_id |-> "m1", status |-> "charged",
      created_at |-> 1 + ((i * stride) % (MaxTime + 1))] : i \in 1..(n + 2)}

LimitSizes == (0..2) \cup ((DefaultLimit - 1)..(DefaultLimit + OverLimit))

LimitTables == {LimitTable(n, stride) : n \in LimitSizes, stride \in 1..2}

OrderLimits ==
    {Nothing, Some(-1), Some(0), Some(1), Some(2), Some(DefaultLimit + 1)}

InitLimit ==
    /\ table \in LimitTables
    /\ last = Idle
    /\ cleared = [P \in {} |-> "no"]

FilterOrder ==
    \E p \in PaymentIds, limit \in OrderLimits, expr \in OrderExprs, eng \in AnyScan :
        Read("filter_order",
             [pred |-> ByPayment(p, "m1"), limit |-> limit, expr |-> expr], eng,
             generic_filter_order(table, ByPayment(p, "m1"), limit, expr, eng))

NextLimit ==
    \/ FilterOrder
    \/ Return

SpecLimit == InitLimit /\ [][NextLimit]_vars

\* The same system with the history of TrackedPreds recorded.
SpecHistory == InitHistory /\ [][Next]_vars

-----------------------------------------------------------------------------
(* Properties *)

Hit(t, P) == {r \in t : Matches(r, P)}

\* An engine outcome without failure.
Executed == [fail |-> FALSE, scan |-> 0]

(* C1 *)

C1_OptionalAgainst(base, P) ==
    /\ last.res = Ok(Nothing) <=> base = Err("NotFound")
    /\ last.res = Ok(Nothing) <=> (~last.eng.fail /\ Hit(table, P) = {})
    /\ base.ok => last.res = Ok(Some(base.val))
    /\ (~base.ok /\ base # Err("NotFound")) => last.res = base

\* C1: the optional lookup returns Ok(None) iff the non-optional lookup, on
\* the same table with the same engine outcome, fails NotFound (which is when
\* the engine executes the query and no row matches); when that succeeds with
\* row r it returns Some(r); for every other failure both return that failure.
C1_Optional ==
    /\ last.op = "find_one_optional" =>
           C1_OptionalAgainst(generic_find_one(table, last.arg.pred, last.eng),
                              last.arg.pred)
    /\ last.op = "find_by_key_optional" =>
           C1_OptionalAgainst(generic_find_by_id(table, last.arg.id, last.eng),
                              ByKey(last.arg.id))

\* An optional lookup by a predicate that matches none of the stored rows
\* answered Ok(None).
C1_Witness ==
    /\ last.op = "find_one_optional"
    /\ last.res = Ok(Nothing)
    /\ table # {}

(* C2 *)

C2_DeleteStep ==
    last'.op = "delete" =>
        LET hit == Hit(table, last'.arg.pred)
        IN /\ ~last'.eng.fail =>
                /\ last'.res = Ok(TRUE) <=> hit # {}
                /\ last'.res = Err("NotFound") <=> hit = {}
           /\ last'.eng.fail => last'.res = Err("Others")

\* C2: when the engine executes the DELETE, delete returns true iff at least
\* one stored row matched the predicate and fails NotFound iff none matched;
\* an engine failure is reported as Others, never as NotFound or true.
C2_Delete == [][C2_DeleteStep]_vars

\* A delete that matched some rows and left others, answered true.
C2_Witness ==
    /\ last.op = "delete"
    /\ last.res = Ok(TRUE)
    /\ table # {}

(* C3 *)

C3_UpdateByKeyStep ==
    last'.op = "update_by_key" =>
        LET id == last'.arg.id
            cs == last'.arg.cs
            cur == {r \in table : r.key = id}
            failed == IF IsNoop(cs) THEN last'.arg.eng2.fail ELSE last'.eng.fail
        IN /\ (IsNoop(cs) /\ cur # {} /\ ~failed) =>
                /\ \E r \in cur : last'.res = Ok(r)
                /\ table' = table
           /\ (cur = {} /\ ~failed) =>
                /\ last'.res = Err("NotFound")
                /\ table' = table
           /\ failed =>
                /\ last'.res = Err("Others")
                /\ table' = table

\* C3: update_by_key with an empty changeset on an existing key returns the
\* stored row and leaves the table unchanged; on a key that does not exist it
\* fails NotFound, for an empty and for a non-empty changeset; an engine
\* failure of the statement that runs is reported as Others.
C3_UpdateByKey == [][C3_UpdateByKeyStep]_vars

\* update_by_key with an empty changeset answered with the stored row.
C3_Witness ==
    /\ last.op = "update_by_key"
    /\ IsNoop(last.arg.cs)
    /\ last.res.ok
    /\ last.res.val \in table

(* C4 *)

\* No two stored rows share a primary key or a unique-column value.
C4_Unique ==
    \A r1, r2 \in table : (r1.key = r2.key \/ r1.ucol = r2.ucol) => r1 = r2

C4_InsertStepAsStated ==
    (last'.op = "insert" /\ ~last'.eng.fail) =>
        LET v == last'.arg
        IN /\ (\E r \in table : r.ucol = v.ucol) =>
                /\ last'.res = Err("UniqueViolation")
                /\ table' = table
                /\ generic_find_by_id(table', v.key, Executed) = Err("NotFound")
                /\ \A r \in table : generic_find_by_id(table', r.key, Executed) = Ok(r)
           /\ (\A r \in table : r.ucol # v.ucol /\ r.key # v.key) =>
                /\ last'.res = Ok(v)
                /\ generic_find_by_id(table', v.key, Executed) = Ok(v)
                /\ \A r \in table : generic_find_by_id(table', r.key, Executed) = Ok(r)

\* C4 as stated: no two stored rows share a unique-column value; an insert
\* whose unique column collides with a stored row fails UniqueViolation,
\* leaves the table unchanged, find_by_key on the rejected payload's key fails
\* NotFound and every earlier row is still returned by find_by_key; an insert
\* that collides with nothing succeeds and the row is retrievable by its key.
C4_AsStated == []C4_Unique /\ [][C4_InsertStepAsStated]_vars

C4_InsertStep ==
    (last'.op = "insert" /\ ~last'.eng.fail) =>
        LET v == last'.arg
        IN /\ (\E r \in table : r.ucol = v.ucol \/ r.key = v.key) =>
                /\ last'.res = Err("UniqueViolation")
                /\ table' = table
                /\ (\A r \in table : r.key # v.key) =>
                       generic_find_by_id(table', v.key, Executed) = Err("NotFound")
                /\ \A r \in table : generic_find_by_id(table', r.key, Executed) = Ok(r)
           /\ (\A r \in table : r.ucol # v.ucol /\ r.key # v.key) =>
                /\ last'.res = Ok(v)
                /\ generic_find_by_id(table', v.key, Executed) = Ok(v)
                /\ \A r \in table : generic_find_by_id(table', r.key, Executed) = Ok(r)

\* C4 amended: as C4, except that find_by_key on the rejected payload's key
\* fails NotFound when no earlier row holds that key, and returns that earlier
\* row when one does (a payload that reuses a stored key is rejected too).
C4_Insert == []C4_Unique /\ [][C4_InsertStep]_vars

\* The scenario of the specification: row B (K2, U1) rejected while row A
\* (K1, U1) is stored and K2 is not.
C4_Witness ==
    /\ last.op = "insert"
    /\ last.res = Err("UniqueViolation")
    /\ \E r \in table : r.ucol = last.arg.ucol /\ r.key # last.arg.key
    /\ \A r \in table : r.key # last.arg.key

(* C5 *)

\* C5: filter_order with no explicit limit returns at most 100 rows, with an
\* explicit limit n at most n rows; the rows returned all match the
\* predicate, are sorted by the ordering expression, and are the first rows
\* of the full ordered match set.
C5_FilterOrder ==
    (last.op = "filter_order" /\ last.res.ok) =>
        LET out == last.res.val
            expr == last.arg.expr
            hit == Hit(table, last.arg.pred)
            n == IF last.arg.limit = Nothing THEN 100 ELSE last.arg.limit[1]
            rest == hit \ {out[i] : i \in 1..Len(out)}
        IN /\ Len(out) <= n
           /\ Len(out) = IF Cardinality(hit) < n THEN Cardinality(hit) ELSE n
           /\ \A i \in 1..Len(out) : out[i] \in hit
           /\ \A i, j \in 1..Len(out) : out[i] = out[j] => i = j
           /\ \A i \in 1..(Len(out) - 1) :
                  OrderKey(out[i], expr) <= OrderKey(out[i + 1], expr)
           /\ \A r \in rest : \A i \in 1..Len(out) :
                  OrderKey(out[i], expr) <= OrderKey(r, expr)

\* More than 100 rows match, no limit was given, and 100 rows came back,
\* newest first.
C5_Witness ==
    /\ last.op = "filter_order"
    /\ last.arg.limit = Nothing
    /\ last.arg.expr.desc
    /\ Cardinality(Hit(table, last.arg.pred)) > 100
    /\ last.res.ok
    /\ Len(last.res.val) = 100

(* C6 *)

\* C6: find_last_successful_attempt returns a charged row of the given
\* (payment_id, merchant_id) whose creation time is the maximum among those
\* rows, whatever the retrieval order; it fails NotFound when there is none.
C6_LastSuccessful ==
    last.op = "find_last_successful" =>
        LET cands == {r \in table : /\ r.payment_id = last.arg.payment_id
                                    /\ r.merchant_id = last.arg.merchant_id
                                    /\ r.status = "charged"}
        IN /\ last.res.ok =>
                /\ last.res.val \in cands
                /\ \A c \in cands : c.created_at <= last.res.val.created_at
           /\ cands = {} => last.res = Err("NotFound")
           /\ (cands # {} /\ ~last.eng.fail) => last.res.ok
           /\ ~last.res.ok => last.res = Err("NotFound")

\* The newest charged row was retrieved before an older one and was kept.
C6_Witness ==
    /\ last.op = "find_last_successful"
    /\ last.res.ok
    /\ LET seq == Scan(Hit(table, ByPaymentStatus(last.arg.payment_id,
                                                  last.arg.merchant_id, "charged")),
                       last.eng.scan)
       IN /\ Len(seq) >= 2
          /\ seq[1] = last.res.val
          /\ seq[Len(seq)].created_at < seq[1].created_at

(* C7 *)

\* C7: PaymentAttempt.update with a changeset that sets no field returns Ok
\* with the unmodified self; with a non-empty changeset it returns an updated
\* row, and fails NotFound when the update matched no row.
C7_UpdateEmptyChangeset ==
    last.op = "attempt_update" =>
        LET self == last.arg.self
            hit == Hit(table, ByPayment(self.payment_id, self.merchant_id))
        IN /\ IsNoop(last.arg.cs) => last.res = Ok(self)
           /\ (~IsNoop(last.arg.cs) /\ ~last.eng.fail) =>
                IF hit = {} THEN last.res = Err("NotFound")
                ELSE last.res.ok /\ last.res.val \in hit

(* C8 *)

C8_DeleteStepAsStated ==
    (last'.op = "delete" /\ ~last'.eng.fail) =>
        LET P == last'.arg.pred
        IN /\ last'.res = Ok(TRUE) => table' = table \ Hit(table, P)
           /\ (P \in DOMAIN cleared /\ cleared[P] # "no") => last'.res = Err("NotFound")

\* C8 as stated: a delete that answers true removes the rows matching its
\* predicate and no other; the same delete repeated with no insert of a
\* matching row in between fails NotFound (when the engine executes it).
C8_AsStated == [][C8_DeleteStepAsStated]_vars

C8_DeleteStep ==
    (last'.op = "delete" /\ ~last'.eng.fail) =>
        LET P == last'.arg.pred
        IN /\ last'.res = Ok(TRUE) => table' = table \ Hit(table, P)
           /\ (P \in DOMAIN cleared /\ cleared[P] = "clean") =>
                  last'.res = Err("NotFound")

\* C8 amended: a delete that answers true removes the rows matching its
\* predicate and no other; the same delete repeated with no insert of a
\* matching row and no update that makes a row match in between fails
\* NotFound (when the engine executes it).
C8_DeleteTwice == [][C8_DeleteStep]_vars

\* The same delete repeated: the first answered true, nothing matching was
\* inserted or produced since, and the second failed NotFound while other rows
\* are still stored.
C8_Witness ==
    /\ last.op = "delete"
    /\ last.arg.pred \in DOMAIN cleared
    /\ cleared[last.arg.pred] = "clean"
    /\ last.res = Err("NotFound")
    /\ table # {}

(* C9 *)

\* Whether the engine executed the SELECT of the pending filter call.
FilterExecuted ==
    /\ ~last.eng.fail
    /\ last.arg.limit = Nothing \/ last.arg.limit[1] >= 0

C10_UpdateStep ==
    last'.op = "update" =>
        LET P == last'.arg.pred
            cs == last'.arg.cs
            hit == Hit(table, P)
        IN /\ (~IsNoop(cs) /\ ~last'.eng.fail) =>
                /\ last'.res = Ok(Cardinality(hit))
                /\ hit = {} => table' = table
                /\ table' = (table \ hit) \cup {Apply(cs, r) : r \in hit}
           /\ ~last'.res.ok =>
                /\ last'.res = Err("Others")
                /\ IsNoop(cs) \/ last'.eng.fail
                /\ table' = table

\* C10: update (row-count form) with zero matching rows returns Ok(0) and
\* leaves the table unchanged; otherwise it returns the number of rows it
\* changed; every failure is an engine failure and is reported as Others,
\* never as NotFound.
C10_Update == [][C10_UpdateStep]_vars

\* An update whose predicate matched no row of a non-empty table answered 0.
C10_Witness ==
    /\ last.op = "update"
    /\ last.res = Ok(0)
    /\ table # {}

(* C11 *)

\* C11: find_latest returns a sequence of at most one row; when the engine
\* executes the direct query and a stored row has the given (merchant_id,
\* payment_id), the sequence holds one row of them whose creation time is the
\* greatest among them; when none has, the sequence is empty; a failure of
\* the direct query is NotFound; and whatever the outcome of the first,
\* dropped filter_order call, the result is the same.
C11_FindLatest ==
    last.op = "find_latest" =>
        LET p == last.arg.payment_id
            m == last.arg.merchant_id
            hit == Hit(table, ByPayment(p, m))
        IN /\ last.res.ok => Len(last.res.val) <= 1
           /\ (~last.eng.fail /\ hit # {}) =>
                /\ last.res.ok
                /\ Len(last.res.val) = 1
                /\ last.res.val[1] \in hit
                /\ \A c \in hit : c.created_at <= last.res.val[1].created_at
           /\ (~last.eng.fail /\ hit = {}) => last.res = Ok(<<>>)
           /\ last.eng.fail => last.res = Err("NotFound")
           /\ \A e1 \in AnyScan :
                  find_latest_by_payment_id_merchant_id(table, p, m, e1, last.eng)
                      = last.res

\* The first call failed, the direct query met an older row of the payment
\* before the newest one, and the newest one came back alone.
C11_Witness ==
    /\ last.op = "find_latest"
    /\ last.arg.eng1.fail
    /\ last.res.ok
    /\ Len(last.res.val) = 1
    /\ LET seq == Scan(Hit(table, ByPayment(last.arg.payment_id, last.arg.merchant_id)),
                       last.eng.scan)
       IN /\ Len(seq) >= 2
          /\ seq[1].created_at < last.res.val[1].created_at

(* C12 *)

C12_AttemptUpdateStep ==
    (last'.op = "attempt_update" /\ ~IsNoop(last'.arg.cs) /\ ~last'.eng.fail) =>
        LET self == last'.arg.self
            cs == last'.arg.cs
            hit == {r \in table : /\ r.payment_id = self.payment_id
                                  /\ r.merchant_id = self.merchant_id}
            out == Scan(hit, last'.eng.scan)
        IN /\ table' = (table \ hit) \cup {[r EXCEPT !.status = cs.status] : r \in hit}
           /\ \A r \in table \ hit : r \in table'
           /\ hit # {} =>
                /\ last'.res.ok
                /\ last'.res.val \in table'
                /\ last'.res.val = [out[Len(out)] EXCEPT !.status = cs.status]
           /\ hit = {} => last'.res = Err("NotFound")

\* C12: PaymentAttempt.update with a non-empty changeset, when the engine
\* executes it, applies the changeset to every stored row whose (payment_id,
\* merchant_id) equals self's, leaves every other row unchanged, and returns
\* one of the updated rows, the last of the engine's result sequence (NotFound
\* when no row has that pair).
C12_AttemptUpdate == [][C12_AttemptUpdateStep]_vars

\* Two attempts of self's payment were updated and the row returned is the
\* other attempt, not self's own.
C12_Witness ==
    /\ last.op = "attempt_update"
    /\ ~IsNoop(last.arg.cs)
    /\ last.res.ok
    /\ last.res.val.key # last.arg.self.key
    /\ \E r \in table : /\ r.key = last.arg.self.key
                         /\ r.payment_id = last.arg.self.payment_id
                         /\ r.status = last.arg.cs.status
                         /\ r.status # last.arg.self.status

====
